---- MODULE Spec2Model ----
(***************************************************************************)
(* The Keyp OIDC provider of packages/core/src/providers/keyp.ts:          *)
(* Keyp(config) builds the provider descriptor, and the descriptor's       *)
(* profile(profile) callback maps Keyp's userinfo claims to the user       *)
(* record of the authentication core.                                      *)
(*                                                                         *)
(* JavaScript values are tagged records: Undefined, or Str(s) for the      *)
(* string s.  JavaScript objects whose keys vary (the caller's config,     *)
(* the claims of /userinfo) are functions from the keys that are present   *)
(* to values; reading a key that is not present gives Undefined (Get).     *)
(***************************************************************************)
EXTENDS Integers, Sequences, FiniteSets, TLC

VARIABLES env, providers, built, calls

vars == <<env, providers, built, calls>>

\* ------------------------------------------------------------------ bounds
MaxProviders == 2
MaxCalls == 2

\* ------------------------------------------------------- JavaScript values
Undefined == [type |-> "undefined"]

Str(s) == [type |-> "string", value |-> s]

\* ToBoolean of undefined | string: undefined and "" are falsy.
Truthy(v) == v.type = "string" /\ v.value # ""

\* obj.key, and the destructuring const { key } = obj
Get(obj, key) == IF key \in DOMAIN obj THEN obj[key] ELSE Undefined

\* ${v} in a template literal
Interpolate(v) == IF v.type = "undefined" THEN "undefined" ELSE v.value

\* An object with no key k, or with key k set to one of vals.
Optional(k, vals) == {<<>>} \cup {k :> v : v \in vals}

\* ------------------------------------------------------------------ inputs
\* process.env.NEXT_PUBLIC_KEYP_API_DOMAIN: unset, set to "", set to a domain.
EnvValues == {Undefined, Str(""), Str("http://localhost:4000")}

\* The caller's config: OIDCUserConfig & AdditionalConfig.
Configs ==
  { a @@ b @@ c :
      a \in Optional("clientId", {Str(""), Str("abc123")}),
      b \in Optional("scope", {Str(""), Str("openid profile")}),
      c \in Optional("redirectUrl", {Str("https://example.com/api/auth/callback/keyp")}) }

\* The claims of /userinfo (KeypProfile extends Record<string, any>).
Profiles ==
  { a @@ b @@ c @@ d @@ e :
      a \in Optional("sub", {Str("u1"), Str("U1")}),
      b \in Optional("username", {Str("alice")}),
      c \in Optional("email", {Str("a@x.com")}),
      d \in Optional("imageSrc", {Str("https://x/img.png")}),
      e \in Optional("address", {Str("0xabc")}) }

\* The inputs of the specification that interleaves every operation: the
\* documented configuration, one that replaces the scope and one without a
\* clientId; full claims, and claims with a subject only.
SomeConfigs ==
  { "clientId" :> Str("abc123")
      @@ "redirectUrl" :> Str("https://example.com/api/auth/callback/keyp"),
    "clientId" :> Str("abc123") @@ "scope" :> Str("openid profile"),
    "scope" :> Str("") }

SomeProfiles ==
  { "sub" :> Str("u1") @@ "username" :> Str("alice") @@ "email" :> Str("a@x.com")
      @@ "imageSrc" :> Str("https://x/img.png") @@ "address" :> Str("0xabc"),
    "sub" :> Str("u2") }

\* --------------------------------------------------------------- the code
defaultScope == "openid email"

\* params: { scope: scope ? scope : defaultScope }
ScopeParamNullish(scope) == IF scope = Undefined THEN Str(defaultScope) ELSE scope

ScopeParam(scope) == IF Truthy(scope) THEN scope ELSE Str(defaultScope)

\* process.env.NEXT_PUBLIC_KEYP_API_DOMAIN || "https://api.usekeyp.com"
KEYP_API_DOMAIN(envValue) ==
  IF Truthy(envValue) THEN envValue ELSE Str("https://api.usekeyp.com")

wellKnown(envValue) ==
  Interpolate(KEYP_API_DOMAIN(envValue)) \o "/oauth/.well-known/openid-configuration"

style ==
  [ logo |-> "/keyp.svg", logoDark |-> "/keyp-dark.svg", bg |-> "#fff",
    text |-> "#005285", bgDark |-> "#005285", textDark |-> "#fff" ]

KeypWith(config, envValue, clientId, issuer, method) ==
  [ id            |-> "keyp",
    name          |-> "Keyp",
    type          |-> "oidc",
    clientId      |-> clientId,
    issuer        |-> issuer,
    wellKnown     |-> wellKnown(envValue),
    authorization |-> [ url    |-> "https://app.usekeyp.com/oauth/auth",
                        params |-> [scope |-> ScopeParam(Get(config, "scope"))] ],
    token         |-> [url |-> "https://api.usekeyp.com/oauth/token"],
    userinfo      |-> "https://api.usekeyp.com/oauth/me",
    client        |-> [token_endpoint_auth_method |-> method],
    style         |-> style,
    options       |-> config ]

\* clientId: clientId || "keyp"
KeypDefaultClientId(config, envValue) ==
  KeypWith(config, envValue,
           IF Truthy(Get(config, "clientId")) THEN Get(config, "clientId") ELSE Str("keyp"),
           "https://api.usekeyp.com", "none")

\* token_endpoint_auth_method follows the presence of a redirectUrl
KeypMethodFromConfig(config, envValue) ==
  KeypWith(config, envValue, Get(config, "clientId"), "https://api.usekeyp.com",
           IF Truthy(Get(config, "redirectUrl")) THEN "none" ELSE "client_secret_basic")

\* issuer: KEYP_API_DOMAIN
KeypIssuerFromEnv(config, envValue) ==
  KeypWith(config, envValue, Get(config, "clientId"),
           Interpolate(KEYP_API_DOMAIN(envValue)), "none")

\* The object Keyp(config) returns when the environment variable reads
\* envValue.  The profile member is the closure modelled by profile below: it
\* captures nothing of config or of the environment, so it is the same
\* function in every descriptor.
Keyp(config, envValue) ==
  [ id            |-> "keyp",
    name          |-> "Keyp",
    type          |-> "oidc",
    clientId      |-> Get(config, "clientId"),
    issuer        |-> "https://api.usekeyp.com",
    wellKnown     |-> wellKnown(envValue),
    authorization |-> [ url    |-> "https://app.usekeyp.com/oauth/auth",
                        params |-> [scope |-> ScopeParam(Get(config, "scope"))] ],
    token         |-> [url |-> "https://api.usekeyp.com/oauth/token"],
    userinfo      |-> "https://api.usekeyp.com/oauth/me",
    client        |-> [token_endpoint_auth_method |-> "none"],
    style         |-> style,
    options       |-> config ]

\* id: profile.address
profileIdFromAddress(p) ==
  [ id      |-> Get(p, "address"),
    name    |-> Get(p, "username"),
    email   |-> Get(p, "email"),
    image   |-> Get(p, "imageSrc"),
    address |-> Get(p, "address") ]

\* name: profile.username ?? "", and so on
OrEmpty(v) == IF v = Undefined THEN Str("") ELSE v

profileWithPlaceholders(p) ==
  [ id      |-> Get(p, "sub"),
    name    |-> OrEmpty(Get(p, "username")),
    email   |-> OrEmpty(Get(p, "email")),
    image   |-> OrEmpty(Get(p, "imageSrc")),
    address |-> Get(p, "address") ]

\* the address member left out
profileWithoutAddress(p) ==
  [ id      |-> Get(p, "sub"),
    name    |-> Get(p, "username"),
    email   |-> Get(p, "email"),
    image   |-> Get(p, "imageSrc") ]

\* profile(profile) of the descriptor
profile(p) ==
  [ id      |-> Get(p, "sub"),
    name    |-> Get(p, "username"),
    email   |-> Get(p, "email"),
    image   |-> Get(p, "imageSrc"),
    address |-> Get(p, "address") ]

\* ------------------------------------------------------------------ state
\* env        the value of process.env.NEXT_PUBLIC_KEYP_API_DOMAIN
\* providers  the descriptors Keyp has returned, in order
\* built      for each descriptor, the circumstances of its construction:
\*            the environment value then, and how many profile invocations
\*            had been started before it
\* calls      the invocations of profile: the claims object handed over
\*            (arg), a copy of it taken before the call (given), whether the
\*            call has returned (pc) and what it returned (result)
Init ==
  /\ env \in EnvValues
  /\ providers = <<>>
  /\ built = <<>>
  /\ calls = <<>>

\* The configuration of the documentation's example.
DocConfig ==
  "clientId" :> Str("abc123")
    @@ "redirectUrl" :> Str("https://example.com/api/auth/callback/keyp")

\* The state once the application has configured its provider.
InitConfigured ==
  /\ env \in EnvValues
  /\ providers = <<Keyp(DocConfig, env)>>
  /\ built = <<[env |-> env, calls |-> 0]>>
  /\ calls = <<>>

\* a module-level counter names the descriptors
KeypBuildCounting(configs) ==
  /\ Len(providers) < MaxProviders
  /\ \E config \in configs :
       providers' = Append(providers,
                      [Keyp(config, env) EXCEPT
                         !.name = IF Len(providers) = 0 THEN "Keyp" ELSE "Keyp (2)"])
  /\ built' = Append(built, [env |-> env, calls |-> Len(calls)])
  /\ UNCHANGED <<env, calls>>

\* Keyp(config) is called with one of configs.
KeypBuild(configs) ==
  /\ Len(providers) < MaxProviders
  /\ \E config \in configs :
       providers' = Append(providers, Keyp(config, env))
  /\ built' = Append(built, [env |-> env, calls |-> Len(calls)])
  /\ UNCHANGED <<env, calls>>

\* The deployment changes the environment variable.
SetEnv ==
  /\ \E v \in EnvValues \ {env} : env' = v
  /\ UNCHANGED <<providers, built, calls>>

\* The core starts descriptor.profile(claims) for one login, with one of ps.
Invoke(ps) ==
  /\ Len(providers) > 0
  /\ Len(calls) < MaxCalls
  /\ \E p \in ps :
       calls' = Append(calls, [arg |-> p, given |-> p, pc |-> "running",
                               result |-> Undefined])
  /\ UNCHANGED <<env, providers, built>>

\* wellKnown is a getter that reads the environment on every login
ReturnRereadingEnv ==
  /\ \E k \in 1..Len(calls) :
       /\ calls[k].pc = "running"
       /\ calls' = [calls EXCEPT ![k].pc = "done",
                                 ![k].result = profile(calls[k].arg)]
  /\ providers' = [i \in 1..Len(providers) |->
                     [providers[i] EXCEPT !.wellKnown = wellKnown(env)]]
  /\ UNCHANGED <<env, built>>

\* the claims are kept in a variable the invocations share
ReturnOfLatest ==
  /\ \E k \in 1..Len(calls) :
       /\ calls[k].pc = "running"
       /\ calls' = [calls EXCEPT ![k].pc = "done",
                                 ![k].result = profile(calls[Len(calls)].arg)]
  /\ UNCHANGED <<env, providers, built>>

\* A started profile(claims) runs its body and returns.
Return ==
  /\ \E k \in 1..Len(calls) :
       /\ calls[k].pc = "running"
       /\ calls' = [calls EXCEPT ![k].pc = "done",
                                 ![k].result = profile(calls[k].arg)]
  /\ UNCHANGED <<env, providers, built>>

\* Every operation, interleaved, on the representative inputs.
Next == KeypBuild(SomeConfigs) \/ SetEnv \/ Invoke(SomeProfiles) \/ Return

Spec == Init /\ [][Next]_vars

\* The descriptor builder alone, on every configuration.
NextKeyp == KeypBuild(Configs) \/ SetEnv

SpecKeyp == Init /\ [][NextKeyp]_vars

\* Concurrent logins against a configured provider, on every claims object.
NextProfile == Invoke(Profiles) \/ Return

SpecProfile == InitConfigured /\ [][NextProfile]_vars

\* -------------------------------------------------------------- properties
Built == 1..Len(providers)

Returned == {k \in 1..Len(calls) : calls[k].pc = "done"}

DiscoveryPath == "/oauth/.well-known/openid-configuration"

\* C1: for a config with a valid clientId, the scope parameter of the
\* authorization endpoint is the caller's scope, verbatim, when that is a
\* non-empty string, and is "openid email" when the scope is absent or "".
C1_ScopeReplacesOrDefaults ==
  \A i \in Built :
    LET config == providers[i].options
        got == providers[i].authorization.params.scope
    IN  Truthy(Get(config, "clientId")) =>
          /\ "scope" \notin DOMAIN config => got = Str("openid email")
          /\ "scope" \in DOMAIN config /\ config["scope"] = Str("") =>
               got = Str("openid email")
          /\ "scope" \in DOMAIN config /\ config["scope"] # Str("") =>
               got = config["scope"]

\* A descriptor built with a scope of its own next to one built with scope "".
C1_Witness ==
  \E i, j \in Built :
    /\ Truthy(Get(providers[i].options, "clientId"))
    /\ Truthy(Get(providers[j].options, "clientId"))
    /\ Get(providers[i].options, "scope") = Str("openid profile")
    /\ providers[i].authorization.params.scope = Str("openid profile")
    /\ Get(providers[j].options, "scope") = Str("")
    /\ providers[j].authorization.params.scope = Str("openid email")

\* C2: a call of profile on claims with a non-empty sub returns a record
\* whose id is that sub, unchanged.
C2_IdIsSubject ==
  \A k \in Returned :
    Truthy(Get(calls[k].given, "sub")) =>
      calls[k].result.id = calls[k].given["sub"]

\* A returned call on claims whose sub has an upper-case letter and whose
\* other claims are all present.
C2_Witness ==
  \E k \in Returned :
    /\ DOMAIN calls[k].given = {"sub", "username", "email", "imageSrc", "address"}
    /\ calls[k].given["sub"] = Str("U1")
    /\ calls[k].result.id = Str("U1")

\* C3 as stated: no descriptor exists for a config whose clientId is missing
\* or empty.
C3_NoDescriptorWithoutClientId ==
  \A i \in Built : Truthy(Get(providers[i].options, "clientId"))

\* C3 as amended: Keyp returns a descriptor for every config, and the
\* descriptor's clientId is the caller's value as it is: undefined when the
\* config has none, "" when it is "", never a default.
C3_ClientIdPassedThrough ==
  \A i \in Built :
    LET config == providers[i].options
    IN  /\ "clientId" \notin DOMAIN config => providers[i].clientId = Undefined
        /\ "clientId" \in DOMAIN config => providers[i].clientId = config["clientId"]

\* A descriptor built from a config with no clientId, next to one built
\* from a config whose clientId is "".
C3_Witness ==
  \E i, j \in Built :
    /\ "clientId" \notin DOMAIN providers[i].options
    /\ providers[i].clientId = Undefined
    /\ Get(providers[j].options, "clientId") = Str("")

\* C4: a returned call of profile on claims with a sub has, for each of
\* username, email and imageSrc that the claims lack, undefined in name, email
\* and image, not "".
C4_MissingClaimsStayAbsent ==
  \A k \in Returned :
    "sub" \in DOMAIN calls[k].given =>
      /\ "username" \notin DOMAIN calls[k].given => calls[k].result.name = Undefined
      /\ "email" \notin DOMAIN calls[k].given => calls[k].result.email = Undefined
      /\ "imageSrc" \notin DOMAIN calls[k].given => calls[k].result.image = Undefined

\* A returned call on claims that hold a sub and nothing else.
C4_Witness ==
  \E k \in Returned :
    /\ DOMAIN calls[k].given = {"sub"}
    /\ calls[k].result.name = Undefined
    /\ calls[k].result.email = Undefined
    /\ calls[k].result.image = Undefined

\* C5 as stated: the record profile returns has a member extensions, which
\* is {address: <value>} when the claims have an address and {} when not.
C5_AddressUnderExtensions ==
  \A k \in Returned :
    /\ "extensions" \in DOMAIN calls[k].result
    /\ calls[k].result.extensions =
         IF "address" \in DOMAIN calls[k].given
         THEN "address" :> calls[k].given["address"]
         ELSE <<>>

\* C5 as amended: the record profile returns has the members id, name,
\* email, image and address and no other; address is the claims' address
\* (undefined when the claims have none), and id, name, email and image are
\* the claims' sub, username, email and imageSrc.
C5_AddressIsAMember ==
  \A k \in Returned :
    /\ DOMAIN calls[k].result = {"id", "name", "email", "image", "address"}
    /\ calls[k].result.address = Get(calls[k].given, "address")
    /\ calls[k].result.id = Get(calls[k].given, "sub")
    /\ calls[k].result.name = Get(calls[k].given, "username")
    /\ calls[k].result.email = Get(calls[k].given, "email")
    /\ calls[k].result.image = Get(calls[k].given, "imageSrc")

\* A returned call on claims with an address next to one on claims without.
C5_Witness ==
  \E j, k \in Returned :
    /\ "address" \in DOMAIN calls[j].given
    /\ calls[j].result.address = Str("0xabc")
    /\ "address" \notin DOMAIN calls[k].given
    /\ calls[k].result.address = Undefined

\* C6: every descriptor has the client authentication method "none".
C6_ClientAuthMethodNone ==
  \A i \in Built : providers[i].client.token_endpoint_auth_method = "none"

\* Two descriptors built from configs that differ in clientId, scope and
\* redirectUrl, under different values of the environment variable.
C6_Witness ==
  \E i, j \in Built :
    /\ built[i].env # built[j].env
    /\ DOMAIN providers[i].options = {}
    /\ DOMAIN providers[j].options = {"clientId", "scope", "redirectUrl"}

C8_DiscoveryFixedAtBuild ==
  [][\A i \in Built :
       /\ i <= Len(providers')
       /\ providers'[i].wellKnown = providers[i].wellKnown]_vars

\* The first descriptor was built, then the variable changed to a value
\* that gives another discovery location and has kept it (the second
\* descriptor was built under it before any call started), then a call of
\* profile returned; the first descriptor still has the location of its build.
C8_Witness ==
  /\ Len(providers) = 2
  /\ built[2].calls = 0
  /\ built[2].env = env
  /\ wellKnown(env) # wellKnown(built[1].env)
  /\ Returned # {}
  /\ providers[1].wellKnown = wellKnown(built[1].env)

\* C9: whatever the interleaving of the calls of profile, a call that has
\* returned has returned what profile gives for its own claims, calls on
\* equal claims have returned equal records, and the claims object of every
\* call is as it was handed over.
C9_ProfilePure ==
  /\ \A k \in 1..Len(calls) : calls[k].arg = calls[k].given
  /\ \A k \in Returned : calls[k].result = profile(calls[k].given)
  /\ \A j, k \in Returned :
       calls[j].given = calls[k].given => calls[j].result = calls[k].result

\* The second call has returned while the first, on other claims, is still
\* running.
C9_Witness ==
  /\ Len(calls) = 2
  /\ calls[1].pc = "running"
  /\ calls[2].pc = "done"
  /\ calls[1].given # calls[2].given
  /\ profile(calls[1].given) # profile(calls[2].given)

====
